---- MODULE Spec2Model ----
(***************************************************************************)
(* Furnace / mass-flow-controller synchronisation: the process controller  *)
(* of main.py (MainWindow), its polling worker (FurnaceWorker) and the two *)
(* instrument drivers (UP150 furnace controller, MKS647B flow controller)  *)
(* together with the instruments' registers the drivers read and write.    *)
(***************************************************************************)
EXTENDS Integers, Sequences, FiniteSets, TLC

(* ----------------------------- program constants ----------------------- *)
MaxStages == 8
NumSegments == 16
POST_ANNEAL_FLOW_RATE == 6
SafeTemperature == 30
SafeRangeValue == 500
StartSetpoint == 25
MaxSetpointTemp == 1200
MaxScaled == 1100

(* ----------------------------- bounds of the model --------------------- *)
\* longest recipe the operator builds in the controller specification
MaxRecipe == 2
\* snapshots emitted by the worker and not yet handled by the GUI thread
MaxQueue == 1
\* segments past the configured ones the furnace program is followed into
Overrun == 1

(* ----------------------------- MKS647B range table --------------------- *)
Rng(v, u) == [value |-> v, unit |-> u]

\* RANGE_DICT: the entry at position c+1 has range code c
RANGE_DICT ==
  << Rng(1, "SCCM"), Rng(2, "SCCM"), Rng(5, "SCCM"), Rng(10, "SCCM"), Rng(20, "SCCM"),
     Rng(50, "SCCM"), Rng(100, "SCCM"), Rng(200, "SCCM"), Rng(500, "SCCM"),
     Rng(1, "SLM"), Rng(2, "SLM"), Rng(5, "SLM"), Rng(10, "SLM"), Rng(20, "SLM"),
     Rng(50, "SLM"), Rng(100, "SLM"), Rng(200, "SLM"), Rng(400, "SLM"), Rng(500, "SLM"),
     Rng(1, "SCMM"),
     Rng(1, "SCFH"), Rng(2, "SCFH"), Rng(5, "SCFH"), Rng(10, "SCFH"), Rng(20, "SCFH"),
     Rng(50, "SCFH"), Rng(100, "SCFH"), Rng(200, "SCFH"), Rng(500, "SCFH"),
     Rng(1, "SCFM"), Rng(2, "SCFM"), Rng(5, "SCFM"), Rng(10, "SCFM"), Rng(20, "SCFM"),
     Rng(50, "SCFM"), Rng(100, "SCFM"), Rng(200, "SCFM"), Rng(500, "SCFM"),
     Rng(30, "SLM"), Rng(300, "SLM") >>

RangeCodes == 0 .. (Len(RANGE_DICT) - 1)

\* RANGE_DICT[f'{value} {unit}'] ; -1 stands for the KeyError of a missing key
RangeCode(r) ==
  IF \E c \in RangeCodes : RANGE_DICT[c + 1] = r
    THEN CHOOSE c \in RangeCodes : RANGE_DICT[c + 1] = r
    ELSE -1

\* REVERSE_RANGE_DICT[code].split()[0] as a number
RangeFactor(code) == RANGE_DICT[code + 1].value

\* Python's round(): to the nearest integer, ties to the even one (num/den, den > 0)
PyRound(num, den) ==
  LET q == num \div den
      r == num % den
  IN  IF 2 * r < den THEN q
      ELSE IF 2 * r > den THEN q + 1
      ELSE IF q % 2 = 0 THEN q ELSE q + 1

\* num/den lies halfway between two integers: there binary floating point may
\* round to either side
Halfway(num, den) == 2 * (num % den) = den

\* x = round(set_point / range_factor / correction_factor * 1000.0) for the
\* set_point num/den, the correction factor being the instrument's "GC" reading
\* (percent) / 100
Encode(num, den, code, gc) ==
  PyRound(num * 1000 * 100, den * RangeFactor(code) * gc)

ScaledSetpoint(set_point, code, gc) == Encode(set_point, 1, code, gc)

\* get_flow_setpoint: round(float(reply) * correction_factor / 1000.0, 3), in
\* thousandths; the value returned is that times range_factor
DecodeThousandths(x, gc) == PyRound(x * gc, 100)

(* ----------------------------- recipe data ----------------------------- *)
Stage(t, r, h, f, rg) ==
  [temperature |-> t, ramp_time |-> r, hold_time |-> h, flow_rate |-> f, range |-> rg]

\* what the operator types into a stage widget (its range combo box is fixed)
UserStages ==
  { Stage(200, 10, 5, 50, Rng(500, "SCCM")) }

\* recipe files the operator loads: the only way a stage gets another range
RecipeFiles ==
  { << Stage(200, 10, 5, 50, Rng(500, "SCCM")), Stage(400, 20, 10, 1, Rng(2, "SLM")) >> }

\* a recipe file: the records under "stages"; bad = j > 0 says that record j
\* lacks the field load_recipe reads as its field-th (0: every record whole)
RecipeFile(records, bad, field) == [records |-> records, bad |-> bad, field |-> field]
WellFormed(records) == RecipeFile(records, 0, 0)

\* the order in which load_recipe sets the fields of a stage widget
Fields == << "temperature", "ramp_time", "hold_time", "range", "flow_rate" >>

\* StageWidget(): the spin boxes as created, the range combo box at "500 SCCM"
FreshStage == Stage(0, 0, 0, 0, Rng(500, "SCCM"))

NoLoad == [file |-> WellFormed(<< >>), outcome |-> "none", flip |-> FALSE]

\* temperatures the furnace reports (around the 30 C threshold)
Temps == {28, 30}

\* gas correction factor of channel 1 as the instrument reports it (percent)
GasCorrections == {100}

Segments == 1 .. NumSegments

VARIABLES
  stages,                \* MainWindow.stages: the recipe, in order
  current_stage_index,   \* MainWindow.current_stage_index
  heating_in_progress,   \* MainWindow.heating_in_progress ("running")
  post_anneal_flow,      \* MainWindow.post_anneal_flow ("post_anneal_active")
  buttonsEnabled,        \* start / add / remove / load / save / close-valve buttons
  segSP, segTM,          \* furnace: segment setpoint and duration registers
  devSeg,                \* furnace: program segment number register (0 = reset)
  mfcRange,              \* MFC channel 1: range code
  mfcFS,                 \* MFC channel 1: flow setpoint, in 1/1000 of full scale
  mfcGC,                 \* MFC channel 1: gas correction factor, percent
  valve1,                \* MFC channel 1 valve open
  queue,                 \* dataReady signals emitted and not yet handled
  tx,                    \* commands transmitted by the last step, in order
  staleTop,              \* history (SpecProgram): the highest segment that held a
                         \* nonzero setpoint or duration when the last start began
  drvCall,               \* SpecDriver: the driver call under way, with its arguments
  drvSent,               \* SpecDriver: what that call has transmitted, in order
  drvReplies,            \* SpecDriver: the replies that call has received, in order
  drvResult,             \* SpecDriver: how the call ended (value returned, exception)
  poll,                  \* SpecPoll: FurnaceWorker.run, its position and locals
  gui,                   \* SpecPoll: the GUI thread, the handler it is running
  emitted,               \* SpecPoll: the dataReady signals emitted, in order
  loaded                 \* history (SpecRecipe): the file of the last load_recipe
                         \* and how that load ended

vars == << stages, current_stage_index, heating_in_progress, post_anneal_flow,
           buttonsEnabled, segSP, segTM, devSeg, mfcRange, mfcFS, mfcGC,
           valve1, queue, tx, staleTop, drvCall, drvSent, drvReplies, drvResult,
           poll, gui, emitted, loaded >>

controller == << current_stage_index, heating_in_progress, post_anneal_flow,
                 buttonsEnabled >>
furnace == << segSP, segTM, devSeg >>
mfc == << mfcRange, mfcFS, mfcGC, valve1 >>
system == << stages, controller, furnace, mfc, queue, tx, staleTop, loaded >>
bench == << drvCall, drvSent, drvReplies, drvResult >>
threads == << poll, gui, emitted >>
aux == << bench, threads, loaded >>

(* ------------------------------------------------------------------------ *)
(* Sequential code is a chain of operators over a context record: the       *)
(* fields a handler reads and writes, the commands it has transmitted (tx), *)
(* every frame it has put on an instrument link, queries included (sent),   *)
(* the number of MFC queries (n) and furnace commands (m) it has issued,    *)
(* the queries (F) and the furnace command (g) that fail in this run of the *)
(* handler, and whether an exception is propagating (exc).                  *)
(* ------------------------------------------------------------------------ *)
Ctx(F, g) ==
  [ csi |-> current_stage_index, heating |-> heating_in_progress,
    post |-> post_anneal_flow, buttons |-> buttonsEnabled,
    segSP |-> segSP, segTM |-> segTM, devSeg |-> devSeg,
    mfcRange |-> mfcRange, mfcFS |-> mfcFS, gc |-> mfcGC, valve1 |-> valve1,
    tx |-> << >>, sent |-> << >>, n |-> 0, m |-> 0, F |-> F, g |-> g,
    exc |-> FALSE ]

Cmd(src, cmd, arg, val, ok) ==
  [src |-> src, cmd |-> cmd, arg |-> arg, val |-> val, ok |-> ok]

Catch(s) == [s EXCEPT !.exc = FALSE]

(* ----------------------------- MKS647B driver -------------------------- *)
\* iterate_query of a read ("RA 1 R", "GC 1 R"): MAX_COUNT error replies raise
MfcRead(s, cmd, arg) ==
  IF s.exc THEN s
  ELSE [s EXCEPT !.n = @ + 1, !.exc = (s.n + 1) \in s.F,
                 !.sent = Append(@, << cmd, arg >>)]

\* iterate_query of a command: transmitted, then accepted by the instrument or
\* answered with an error reply on every attempt
MfcWrite(s, src, cmd, arg, val) ==
  IF s.exc THEN s
  ELSE LET ok == (s.n + 1) \notin s.F
       IN  [s EXCEPT !.n = @ + 1, !.exc = ~ok,
                     !.tx = Append(@, Cmd(src, cmd, arg, val, ok)),
                     !.sent = Append(@, << cmd, arg >>)]

\* "assert ...": an AssertionError when the condition fails
Require(s, condition) ==
  IF s.exc \/ condition THEN s ELSE [s EXCEPT !.exc = TRUE]

get_range(s, channel) ==
  MfcRead(Require(s, channel >= 1 /\ channel <= 8), "RA R", channel)

get_gas_correction_factor(s, channel) ==
  MfcRead(Require(s, channel >= 1 /\ channel <= 8), "GC R", channel)

set_range(s, src, channel, range_value, range_unit) ==
  IF s.exc THEN s
  ELSE IF ~(channel >= 1 /\ channel <= 8) THEN [s EXCEPT !.exc = TRUE]
  ELSE LET range_code == RangeCode(Rng(range_value, range_unit))
       IN  IF ~(range_code >= 0 /\ range_code <= 39) THEN [s EXCEPT !.exc = TRUE]
           ELSE LET t == MfcWrite(s, src, "RA", channel, range_code)
                IN  IF t.exc THEN t ELSE [t EXCEPT !.mfcRange = range_code]

set_flow_setpoint(s, src, channel, set_point) ==
  IF s.exc THEN s
  ELSE LET s1 == get_range(s, channel)
           s2 == get_gas_correction_factor(s1, channel)
           x  == ScaledSetpoint(set_point, s.mfcRange, s.gc)
       IN  IF s2.exc THEN s2
           ELSE IF ~(channel >= 1 /\ channel <= 8) THEN [s2 EXCEPT !.exc = TRUE]
           ELSE IF ~(x >= 0 /\ x <= MaxScaled) THEN [s2 EXCEPT !.exc = TRUE]
           ELSE LET t == MfcWrite(s2, src, "FS", channel, x)
                IN  IF t.exc THEN t ELSE [t EXCEPT !.mfcFS = x]

set_gas_menu(s, src, gas_set) ==
  MfcWrite(Require(s, gas_set >= 0 /\ gas_set <= 5), src, "GM", gas_set, 0)

set_gas_setpoint(s, src, channel, gas_set, set_point) ==
  LET s1 == get_range(s, channel)
      s2 == get_gas_correction_factor(s1, channel)
      x  == ScaledSetpoint(set_point, s.mfcRange, s.gc)
      s3 == Require(s2, channel >= 1 /\ channel <= 8)
      s4 == Require(s3, gas_set >= 1 /\ gas_set <= 5)
      s5 == Require(s4, x >= 0 /\ x <= MaxScaled)
  IN  MfcWrite(s5, src, "GP", channel, x)

open_valve(s, src, channel) ==
  IF s.exc THEN s
  ELSE IF ~(channel >= 0 /\ channel <= 8) THEN [s EXCEPT !.exc = TRUE]
  ELSE LET t == MfcWrite(s, src, "ON", channel, 1)
       IN  IF t.exc THEN t ELSE [t EXCEPT !.valve1 = TRUE]

close_valve(s, src, channel) ==
  IF s.exc THEN s
  ELSE IF ~(channel >= 0 /\ channel <= 8) THEN [s EXCEPT !.exc = TRUE]
  ELSE LET t == MfcWrite(s, src, "OF", channel, 0)
       IN  IF t.exc THEN t ELSE [t EXCEPT !.valve1 = FALSE]

(* ----------------------------- UP150 driver ---------------------------- *)
\* write_raw of a write frame: the g-th furnace command of the handler finds the
\* link dead (the transport raises); the reply to a write is never parsed
FurnaceWrite(s, src, cmd, arg, val) ==
  IF s.exc THEN s
  ELSE IF s.m + 1 = s.g THEN [s EXCEPT !.m = @ + 1, !.exc = TRUE]
  ELSE [s EXCEPT !.m = @ + 1, !.tx = Append(@, Cmd(src, cmd, arg, val, TRUE)),
                 !.sent = Append(@, << cmd, arg >>)]

set_start_setpoint(s, src, temp) ==
  IF s.exc THEN s
  ELSE IF ~(temp >= 0 /\ temp <= MaxSetpointTemp) THEN [s EXCEPT !.exc = TRUE]
  ELSE FurnaceWrite(s, src, "SSP", 0, temp)

set_sp_setpoint(s, src, num, temp) ==
  IF s.exc THEN s
  ELSE IF ~(num >= 1 /\ num <= NumSegments) THEN [s EXCEPT !.exc = TRUE]
  ELSE IF ~(temp >= 0 /\ temp <= MaxSetpointTemp) THEN [s EXCEPT !.exc = TRUE]
  ELSE LET t == FurnaceWrite(s, src, "SP", num, temp)
       IN  IF t.exc THEN t ELSE [t EXCEPT !.segSP[num] = temp]

set_tm_length(s, src, num, length) ==
  IF s.exc THEN s
  ELSE IF ~(num >= 1 /\ num <= NumSegments) THEN [s EXCEPT !.exc = TRUE]
  ELSE LET t == FurnaceWrite(s, src, "TM", num, length)
       IN  IF t.exc THEN t ELSE [t EXCEPT !.segTM[num] = length]

set_run(s, src) ==
  IF s.exc THEN s
  ELSE LET t == FurnaceWrite(s, src, "RUN", 0, 1)
       IN  IF t.exc THEN t ELSE [t EXCEPT !.devSeg = 1]

set_reset(s, src) ==
  IF s.exc THEN s
  ELSE LET t == FurnaceWrite(s, src, "RESET", 0, 0)
       IN  IF t.exc THEN t ELSE [t EXCEPT !.devSeg = 0]

(* ----------------------------- MainWindow ------------------------------ *)
\* mutant: the hold segment taken for the next stage's ramp segment
hold_segment_shifted(i) == i * 2 + 3
ramp_segment(i) == i * 2 + 1
hold_segment(i) == i * 2 + 2

\* body of "for i, stage_widget in enumerate(self.stages)" for index i (0-based)
WriteStage(s, i) ==
  LET w  == stages[i + 1]
      s1 == set_sp_setpoint(s, "start", ramp_segment(i), w.temperature)
      s2 == set_sp_setpoint(s1, "start", hold_segment(i), w.temperature)
      s3 == set_tm_length(s2, "start", ramp_segment(i), w.ramp_time)
  IN  set_tm_length(s3, "start", hold_segment(i), w.hold_time)

RECURSIVE WriteStages(_, _)
WriteStages(s, i) ==
  IF i >= Len(stages) THEN s ELSE WriteStages(WriteStage(s, i), i + 1)

\* mutant: the clearing starts one segment late
FirstUnusedSegment_late == Len(stages) * 2 + 2
\* "for seg in range(total_used_segments + 1, 17)"
FirstUnusedSegment == Len(stages) * 2 + 1

RECURSIVE ClearUnused(_, _)
ClearUnused(s, seg) ==
  IF seg >= NumSegments + 1 THEN s
  ELSE ClearUnused(set_tm_length(set_sp_setpoint(s, "start", seg, 0), "start", seg, 0),
                   seg + 1)

\* mutant: the run command issued before the unused segments are cleared
start_furnace_run_early(s) ==
  LET s0 == set_start_setpoint(s, "start", StartSetpoint)
  IN  IF s0.exc THEN s0
      ELSE LET s1 == [s0 EXCEPT !.buttons = FALSE]
               s2 == WriteStages(s1, 0)
               s3 == set_run(s2, "start")
               s4 == ClearUnused(s3, FirstUnusedSegment)
               s5 == open_valve(s4, "start", 1)
               s6 == IF s5.exc THEN s5 ELSE [s5 EXCEPT !.heating = TRUE]
           IN  Catch(s6)

start_furnace(s) ==
  LET s0 == set_start_setpoint(s, "start", StartSetpoint)
  IN  IF s0.exc THEN s0              \* raised outside the try: nothing else runs
      ELSE LET s1 == [s0 EXCEPT !.buttons = FALSE]
               s2 == WriteStages(s1, 0)
               s3 == ClearUnused(s2, FirstUnusedSegment)
               s4 == set_run(s3, "start")
               s5 == open_valve(s4, "start", 1)
               s6 == IF s5.exc THEN s5 ELSE [s5 EXCEPT !.heating = TRUE]
           IN  Catch(s6)

\* src: "stop" or "idle" for the stop button, "complete" for a call of the
\* completion checks
stop_furnace(s, src) ==
  LET s1 == set_reset(s, src)
      s2 == IF s1.exc THEN s1
            ELSE [s1 EXCEPT !.csi = -1, !.heating = FALSE, !.buttons = TRUE]
      s3 == set_range(s2, src, 1, SafeRangeValue, "SCCM")
      s4 == set_flow_setpoint(s3, src, 1, POST_ANNEAL_FLOW_RATE)
      s5 == IF s4.exc THEN s4 ELSE [s4 EXCEPT !.post = TRUE]
  IN  Catch(s5)

StageOf(segment) == 1 + (segment - 1) \div 2
StageIndexOf(segment) == (segment - 1) \div 2

\* "if self.current_stage_index != stage_index: if 0 <= stage_index < len(self.stages)"
StageChanged(csi, segment) ==
  /\ csi # StageIndexOf(segment)
  /\ 0 <= StageIndexOf(segment)
  /\ StageIndexOf(segment) < Len(stages)

PushStage(s, segment) ==
  IF StageChanged(s.csi, segment)
    THEN LET w  == stages[StageIndexOf(segment) + 1]
             s1 == set_range(s, "push", 1, w.range.value, w.range.unit)
             s2 == set_flow_setpoint(s1, "push", 1, w.flow_rate)
         IN  [Catch(s2) EXCEPT !.csi = StageIndexOf(segment)]
    ELSE s

\* "if stage > len(self.stages)"
IsOverrun(segment) == StageOf(segment) > Len(stages)
\* "elif self.current_stage_index != -1 and stage_index == -1"
IsWraparound(csi, segment) == csi # -1 /\ StageIndexOf(segment) = -1

CompletionCheck(s, segment) ==
  IF s.heating /\ (IsOverrun(segment) \/ IsWraparound(s.csi, segment))
    THEN stop_furnace(s, "complete")
    ELSE s

\* "if temp < 30 and self.post_anneal_flow"
BelowThreshold(temp) == temp < SafeTemperature

PostAnnealCheck(s, temp) ==
  IF BelowThreshold(temp) /\ s.post
    THEN LET s1 == set_range(s, "shutoff", 1, SafeRangeValue, "SCCM")
             s2 == set_flow_setpoint(s1, "shutoff", 1, 0)
             s3 == close_valve(s2, "shutoff", 1)
         IN  IF s3.exc THEN s3 ELSE [s3 EXCEPT !.post = FALSE]
    ELSE s

\* handle_furnace_data(segment, ..., temp, ...); tmOk: the reply to the extra
\* get_tm_length(segment + 1) of a ramp segment parses
handle_furnace_data(s, segment, temp, tmOk) ==
  IF segment # 0 /\ segment % 2 = 1 /\ ~tmOk
    THEN [s EXCEPT !.exc = TRUE]
    ELSE PostAnnealCheck(CompletionCheck(PushStage(s, segment), segment), temp)

\* the fields a handler may have changed, written back
Commit(s) ==
  /\ current_stage_index' = s.csi
  /\ heating_in_progress' = s.heating
  /\ post_anneal_flow' = s.post
  /\ buttonsEnabled' = s.buttons
  /\ segSP' = s.segSP
  /\ segTM' = s.segTM
  /\ devSeg' = s.devSeg
  /\ mfcRange' = s.mfcRange
  /\ mfcFS' = s.mfcFS
  /\ valve1' = s.valve1
  /\ tx' = s.tx

(* ----------------------------- initial state --------------------------- *)
\* no driver call under way
NoCall == [op |-> "none"]
NoReply == [c0 |-> "", c1 |-> ""]
NoResult == [kind |-> "none", val |-> NoReply, error |-> ""]
BenchInit ==
  /\ drvCall = NoCall
  /\ drvSent = << >>
  /\ drvReplies = << >>
  /\ drvResult = NoResult

\* the six reads of one poll cycle, in order, and the link each of their
\* exchanges uses (get_actual_flow queries the range, then the flow)
PollReads ==
  << [read |-> "get_segment_number", links |-> << "furnace" >>],
     [read |-> "get_segment_time_left", links |-> << "furnace" >>],
     [read |-> "get_current_temp", links |-> << "furnace" >>],
     [read |-> "get_actual_flow", links |-> << "mfc", "mfc" >>],
     [read |-> "get_range", links |-> << "mfc" >>],
     [read |-> "get_current_setpoint", links |-> << "furnace" >> ] >>

\* worker.start(): the first cycle begins at once; no local is assigned yet
PollInit ==
  /\ poll = [pc |-> "read", i |-> 1, todo |-> PollReads[1].links, link |-> "none",
             cycle |-> 1, vals |-> [k \in 1 .. Len(PollReads) |-> 0],
             running |-> TRUE, waited |-> FALSE, failed |-> {}]
  /\ gui = [op |-> "idle", todo |-> << >>, link |-> "none", try |-> FALSE,
            released |-> {}, log |-> << >>]
  /\ emitted = << >>

\* after MainWindow.__init__: UP150() cleared all segments, MKS647B() set the
\* range "1 SLM", then setpoint 0 and the valves opened; no stage, idle
Init ==
  /\ stages = << >>
  /\ current_stage_index = -1
  /\ heating_in_progress = FALSE
  /\ post_anneal_flow = FALSE
  /\ buttonsEnabled = TRUE
  /\ segSP = [k \in Segments |-> 0]
  /\ segTM = [k \in Segments |-> 0]
  /\ devSeg = 0
  /\ mfcRange = RangeCode(Rng(1, "SLM"))
  /\ mfcFS = 0
  /\ mfcGC \in GasCorrections
  /\ valve1 = TRUE
  /\ queue = << >>
  /\ tx = << >>
  /\ staleTop = 0
  /\ BenchInit
  /\ PollInit
  /\ loaded = NoLoad

(* ----------------------------- failure inputs -------------------------- *)
\* the MFC queries that fail in one run of a handler issuing up to n of them:
\* none, one of them, or all (the link is down)
FailSets(n) == {{}} \cup {{k} : k \in 1 .. n} \cup {1 .. n}

\* MFC queries issued at most by start_furnace (open_valve), by stop_furnace
\* (set_range, set_flow_setpoint with its two reads), by the close-valve button
\* and by handle_furnace_data (a stage push or a stop, then the shut-off)
StartQueries == 1
StopQueries == 4
ValveQueries == 1
HandlerQueries == 9

(* ----------------------------- actions --------------------------------- *)
\* add_stage, then the operator's entries in the new stage's spin boxes: one of
\* pool; the operator clicks while the recipe has fewer than cap stages
AddStage(cap, pool) ==
  /\ buttonsEnabled
  /\ Len(stages) < cap
  /\ \E w \in pool :
       stages' = IF Len(stages) >= MaxStages THEN stages ELSE Append(stages, w)
  /\ tx' = << >>
  /\ UNCHANGED << controller, furnace, mfc, queue, staleTop, aux >>

RemoveStage ==
  /\ buttonsEnabled
  /\ stages' = IF stages # << >> THEN SubSeq(stages, 1, Len(stages) - 1) ELSE stages
  /\ tx' = << >>
  /\ UNCHANGED << controller, furnace, mfc, queue, staleTop, aux >>

\* mutant: add_stage without its limit
add_stage_unlimited(st) == Append(st, FreshStage)

\* add_stage as load_recipe calls it: "if len(self.stages) >= 8: return"
add_stage(st) == IF Len(st) >= MaxStages THEN st ELSE Append(st, FreshStage)

\* the setValue / setCurrentText calls on a widget for the first upto fields
ApplyRecord(w, rec, upto) ==
  [f \in DOMAIN w |-> IF \E k \in 1 .. upto : Fields[k] = f THEN rec[f] ELSE w[f]]

RECURSIVE LoadRecords(_, _, _)
\* "for stage_data in data.get("stages", [])" from record j on: add_stage(),
\* then the fields of the record go into self.stages[-1]; a missing field
\* raises KeyError where it is read
LoadRecords(st, file, j) ==
  IF j > Len(file.records) THEN [stages |-> st, exc |-> FALSE]
  ELSE LET a == add_stage(st)
           upto == IF file.bad = j THEN file.field - 1 ELSE Len(Fields)
           b == [a EXCEPT ![Len(a)] = ApplyRecord(a[Len(a)], file.records[j], upto)]
       IN  IF file.bad = j THEN [stages |-> b, exc |-> TRUE]
           ELSE LoadRecords(b, file, j + 1)

\* load_recipe after json.load: "while self.stages: self.remove_stage()", then
\* the loop over the records
load_recipe(file) == LoadRecords(<< >>, file, 1)

\* load_recipe of a file whose values lie within the spin boxes' ranges
LoadRecipe(file) ==
  /\ buttonsEnabled
  /\ stages' = load_recipe(file).stages
  /\ tx' = << >>
  /\ UNCHANGED << controller, furnace, mfc, queue, staleTop, bench, threads >>

HighestProgrammed ==
  LET used == {k \in Segments : segSP[k] # 0 \/ segTM[k] # 0}
  IN  IF used = {} THEN 0 ELSE CHOOSE k \in used : \A j \in used : j <= k

\* the start button; F: the MFC queries that fail, g: the furnace command that fails
StartFurnace(F, g) ==
  /\ buttonsEnabled
  /\ Commit(start_furnace(Ctx(F, g)))
  /\ UNCHANGED << stages, mfcGC, queue, aux >>

\* the stop button (never disabled); its commands are logged as "stop" when a run
\* is in progress and as "idle" otherwise
StopFurnace(F) ==
  /\ Commit(stop_furnace(Ctx(F, 0), IF heating_in_progress THEN "stop" ELSE "idle"))
  /\ UNCHANGED << stages, mfcGC, queue, staleTop, aux >>

\* the close-valve button: lambda: self.mfc.close_valve(1)
CloseValve(F) ==
  /\ buttonsEnabled
  /\ Commit(close_valve(Ctx(F, 0), "valve", 1))
  /\ UNCHANGED << stages, mfcGC, queue, staleTop, aux >>

\* the GUI thread handles the oldest dataReady signal
HandleFurnaceData(F, tmOk) ==
  /\ queue # << >>
  /\ Commit(handle_furnace_data(Ctx(F, 0), Head(queue).segment, Head(queue).temp, tmOk))
  /\ queue' = Tail(queue)
  /\ UNCHANGED << stages, mfcGC, staleTop, aux >>

\* FurnaceWorker.run, one pass of its loop: the six reads, then emit and
\* msleep(REFRESH_TIME), or, when a read raises, "continue". The segment number
\* is the furnace's register, the temperature what the chamber has at the time
WorkerPoll(ok, temp) ==
  /\ Len(queue) < MaxQueue
  /\ queue' = IF ok THEN Append(queue, [segment |-> devSeg, temp |-> temp]) ELSE queue
  /\ tx' = << >>
  /\ UNCHANGED << stages, controller, furnace, mfc, staleTop, aux >>

\* the furnace program moves on to its next segment
FurnaceAdvance(limit) ==
  /\ devSeg >= 1
  /\ devSeg < limit
  /\ devSeg' = devSeg + 1
  /\ tx' = << >>
  /\ UNCHANGED << stages, controller, segSP, segTM, mfc, queue, staleTop, aux >>

\* the furnace program ends: the segment number register reads 0 again
FurnaceFinish ==
  /\ devSeg >= 1
  /\ devSeg' = 0
  /\ tx' = << >>
  /\ UNCHANGED << stages, controller, segSP, segTM, mfc, queue, staleTop, aux >>

(* ----------------------------- specifications -------------------------- *)
\* the furnace program is followed up to Overrun segments past the longest recipe
SegLimit == IF 2 * MaxRecipe + Overrun < NumSegments THEN 2 * MaxRecipe + Overrun
            ELSE NumSegments

\* the controller with its worker and both instruments; recipes of up to
\* MaxRecipe stages; any MFC query and any read of the furnace may fail
Next ==
  \/ AddStage(MaxRecipe, UserStages)
  \/ RemoveStage
  \/ \E records \in RecipeFiles : LoadRecipe(WellFormed(records)) /\ UNCHANGED loaded
  \/ \E F \in FailSets(StartQueries) : StartFurnace(F, 0) /\ UNCHANGED staleTop
  \/ \E F \in FailSets(StopQueries) : StopFurnace(F)
  \/ \E F \in FailSets(ValveQueries) : CloseValve(F)
  \/ \E F \in FailSets(HandlerQueries), tmOk \in BOOLEAN : HandleFurnaceData(F, tmOk)
  \/ \E ok \in BOOLEAN, temp \in Temps : WorkerPoll(ok, temp)
  \/ FurnaceAdvance(SegLimit)
  \/ FurnaceFinish

Spec == Init /\ [][Next]_vars

\* programming the furnace: recipes of every length 0 .. MaxStages, whose stages
\* alternate between the two of ProgramStages, started and stopped in any order,
\* with any MFC query of the start or the stop failing;
\* staleTop records what the furnace held when a start began
ProgramStages ==
  << Stage(200, 10, 5, 50, Rng(500, "SCCM")), Stage(400, 20, 10, 100, Rng(500, "SCCM")) >>

NextProgram ==
  \/ AddStage(MaxStages + 1, {ProgramStages[1 + (Len(stages) % 2)]})
  \/ RemoveStage
  \/ \E F \in FailSets(StartQueries) : StartFurnace(F, 0) /\ staleTop' = HighestProgrammed
  \/ \E F \in FailSets(StopQueries) : StopFurnace(F)

SpecProgram == Init /\ [][NextProgram]_vars

\* starting with a failing link: recipes of up to MaxStartRecipe stages, and the g-th
\* furnace command of a start raises (g = 0: none does)
StartCommands == 2 * NumSegments + 2
MaxStartRecipe == 2

NextStart ==
  \/ AddStage(MaxStartRecipe, {ProgramStages[1 + (Len(stages) % 2)]})
  \/ RemoveStage
  \/ \E F \in FailSets(StartQueries), g \in 0 .. StartCommands :
       StartFurnace(F, g) /\ UNCHANGED staleTop
  \/ StopFurnace({})

SpecStart == Init /\ [][NextStart]_vars

(* ----------------------------- editing the recipe ---------------------- *)
\* records in a recipe file
MaxFile == 9

\* record j of the files loaded: told apart by its values
FileStage(j) == Stage(100 * j, j, j, j, Rng(200, "SCCM"))

\* files of no, one, MaxStages and MaxFile records: whole, or with the first
\* or the third field missing in the first or the last record
BenchRecords(n) == [j \in 1 .. n |-> FileStage(j)]
BenchFiles ==
  UNION { {WellFormed(BenchRecords(n))} \cup
          {RecipeFile(BenchRecords(n), bad, field) : bad \in {1, n} \cap (1 .. n), field \in {1, 3}} :
          n \in {0, 1, MaxStages, MaxFile} }

NextRecipe ==
  \/ AddStage(MaxStages + 1, UserStages)
  \/ RemoveStage
  \/ \E file \in BenchFiles :
       /\ LoadRecipe(file)
       /\ loaded' = [file |-> file, flip |-> ~loaded.flip,
                     outcome |-> IF load_recipe(file).exc THEN "raise" ELSE "ok"]

SpecRecipe == Init /\ [][NextRecipe]_vars

(* ----------------------------- the drivers, call by call --------------- *)
\* MKS647B.iterate_query: "MAX_COUNT = 5"
MAX_COUNT == 5

\* a reply of the 647B, by its first two characters: an error reply is "E" and
\* an error code, any other reply starts with a digit
FirstChars == {"E", "1"}
SecondChars == {"0", "1", "2", "3", "4", "5", "9"}
Replies == [c0 : FirstChars, c1 : SecondChars]

\* mutant of IsError: the test looks at the second character
IsError_wrong_char(val) == val.c1 = "E"
\* "if val[0] != 'E': return val"
IsError(val) == val.c0 = "E"

\* mutant of Classification: one message for every code
Classification_generic(c) == "unknown error"
\* the if / elif chain over val[1] after the loop
Classification(c) ==
  CASE c = "0" -> "channel error"
    [] c = "1" -> "unknown command"
    [] c = "2" -> "syntax error"
    [] c = "3" -> "invalid expression"
    [] c = "4" -> "invalid value"
    [] c = "5" -> "autozero error"
    [] OTHER   -> "unknown error"

Running == [kind |-> "running", val |-> NoReply, error |-> ""]
Returned(val) == [kind |-> "return", val |-> val, error |-> ""]
Raised(error) == [kind |-> "raise", val |-> NoReply, error |-> error]

\* the caller has taken the outcome of a call; the driver awaits the next call
DriverReturn ==
  /\ drvResult.kind \in {"return", "raise"}
  /\ drvCall' = NoCall
  /\ drvSent' = << >>
  /\ drvReplies' = << >>
  /\ drvResult' = NoResult
  /\ UNCHANGED << system, threads >>

\* a call of iterate_query(command) begins
IterateQueryCall ==
  /\ drvResult.kind = "none"
  /\ drvCall' = [op |-> "iterate_query", command |-> "RA 1 R"]
  /\ drvSent' = << >>
  /\ drvReplies' = << >>
  /\ drvResult' = Running
  /\ UNCHANGED << system, threads >>

\* one pass of "for i in range(MAX_COUNT)": the query is transmitted and val is
\* the reply; after the last pass the exception chosen by val[1] is raised
IterateQueryAttempt(val) ==
  /\ drvCall.op = "iterate_query"
  /\ drvResult.kind = "running"
  /\ Len(drvSent) < MAX_COUNT
  /\ drvSent' = Append(drvSent, drvCall.command)
  /\ drvReplies' = Append(drvReplies, val)
  /\ drvResult' = IF ~IsError(val) THEN Returned(val)
                  ELSE IF Len(drvSent) + 1 = MAX_COUNT THEN Raised(Classification(val.c1))
                  ELSE Running
  /\ UNCHANGED << drvCall, system, threads >>

\* inst.query times out: its exception leaves iterate_query at once
IterateQueryTimeout ==
  /\ drvCall.op = "iterate_query"
  /\ drvResult.kind = "running"
  /\ Len(drvSent) < MAX_COUNT
  /\ drvSent' = Append(drvSent, drvCall.command)
  /\ drvResult' = Raised("VisaIOError")
  /\ UNCHANGED << drvCall, drvReplies, system, threads >>

\* set_flow_setpoint's encoding of a flow of tenths/10 units, get_flow_setpoint's
\* decoding of the device integer, and the encoding of the decoded value, at a
\* fixed range and correction factor; flows whose arithmetic has no halfway case
RoundTrip(tenths, code, gc) ==
  LET x == Encode(tenths, 10, code, gc)
      back == DecodeThousandths(x, gc)
      \* the decoded value is back/1000 * range_factor; encoding divides it by
      \* range_factor and by the correction factor and multiplies by 1000
      again == PyRound(back * 100, gc)
  IN  /\ drvResult.kind = "none"
      /\ x >= 0 /\ x <= MaxScaled
      /\ ~Halfway(tenths * 1000 * 100, 10 * RangeFactor(code) * gc)
      /\ ~Halfway(x * gc, 100)
      /\ ~Halfway(back * 100, gc)
      /\ drvCall' = [op |-> "round_trip", tenths |-> tenths, code |-> code, gc |-> gc]
      /\ drvSent' = << >>
      /\ drvReplies' = << >>
      /\ drvResult' = [kind |-> "return", error |-> "",
                       val |-> [x |-> x, back |-> back, again |-> again]]
      /\ UNCHANGED << system, threads >>

\* get_flow_setpoint and get_actual_flow on the same device integer x, range
\* and correction factor, both in thousandths of the range unit: the first is
\* round(x * cf / 1000, 3) * range_factor, the second x / 1000 * range_factor
DecodeFlow(x, code, gc) ==
  /\ drvResult.kind = "none"
  /\ ~Halfway(x * gc, 100)
  /\ drvCall' = [op |-> "decode_flow", x |-> x, code |-> code, gc |-> gc]
  /\ drvSent' = << >>
  /\ drvReplies' = << >>
  /\ drvResult' = [kind |-> "return", error |-> "",
                   val |-> [setpoint |-> DecodeThousandths(x, gc) * RangeFactor(code),
                            actual |-> x * RangeFactor(code)]]
  /\ UNCHANGED << system, threads >>

\* one call of an MKS647B operation, the instrument answering every query
MfcOperation(s, op, channel, gas_set, set_point) ==
  CASE op = "open_valve" -> open_valve(s, "bench", channel)
    [] op = "close_valve" -> close_valve(s, "bench", channel)
    [] op = "set_gas_menu" -> set_gas_menu(s, "bench", gas_set)
    [] op = "set_gas_setpoint" -> set_gas_setpoint(s, "bench", channel, gas_set, set_point)
    [] op = "set_flow_setpoint" -> set_flow_setpoint(s, "bench", channel, set_point)
    [] op = "set_range" -> set_range(s, "bench", channel, SafeRangeValue, "SCCM")
    [] op = "get_range" -> get_range(s, channel)
    [] op = "get_gas_correction_factor" -> get_gas_correction_factor(s, channel)

MfcOps == {"open_valve", "close_valve", "set_gas_menu", "set_gas_setpoint",
           "set_flow_setpoint", "set_range", "get_range", "get_gas_correction_factor"}

MfcCall(op, channel, gas_set, set_point) ==
  LET s == MfcOperation(Ctx({}, 0), op, channel, gas_set, set_point)
  IN  /\ drvResult.kind = "none"
      /\ drvCall' = [op |-> op, channel |-> channel, gas_set |-> gas_set,
                     set_point |-> set_point]
      /\ drvSent' = s.sent
      /\ drvReplies' = << >>
      /\ drvResult' = IF s.exc THEN Raised("AssertionError") ELSE Returned(NoReply)
      /\ UNCHANGED << system, threads >>

\* a reply frame of the UP150: its length in bytes, the register value whose
\* four hexadecimal digits start at byte 7, and whether those bytes arrived
\* as hexadecimal digits
ReplyLengths == {0, 7, 9, 11, 16}
ReplyValues == {0, 30, 1200}
FurnaceReplies == [len : ReplyLengths, value : ReplyValues, hex : BOOLEAN]

\* the four hexadecimal digits of a register value
HexDigits(v) == << (v \div 4096) % 16, (v \div 256) % 16, (v \div 16) % 16, v % 16 >>

\* reply[7:11]: the bytes at offsets 7..10 that the frame has
Slice_7_11(reply) ==
  LET have == IF reply.len <= 7 THEN 0 ELSE IF reply.len >= 11 THEN 4 ELSE reply.len - 7
  IN  SubSeq(HexDigits(reply.value), 1, have)

RECURSIVE IntBase16(_)
\* int(digits, 16) of a non-empty digit string
IntBase16(digits) ==
  IF digits = << >> THEN 0
  ELSE 16 * IntBase16(SubSeq(digits, 1, Len(digits) - 1)) + digits[Len(digits)]

FurnaceReads == {"get_current_temp", "get_current_setpoint", "get_segment_time_left",
                 "get_segment_number", "get_sp_setpoint", "get_tm_length"}
FurnaceWrites == {"set_reset", "set_run", "set_start_setpoint", "set_sp_setpoint",
                  "set_tm_length"}

\* the reads end in "return int(reply[7:11], 16)", a ValueError on an empty or
\* non-hexadecimal field
ParseReply(reply) ==
  IF Slice_7_11(reply) = << >> \/ ~reply.hex THEN Raised("ValueError")
  ELSE [kind |-> "return", error |-> "", val |-> IntBase16(Slice_7_11(reply))]

\* one call of a UP150 operation: write_raw(cmd), sleep, buffer_read(); the
\* writes end in "return self.buffer_read()"
FurnaceCall(op, reply) ==
  /\ drvResult.kind = "none"
  /\ drvCall' = [op |-> op]
  /\ drvSent' = << op >>
  /\ drvReplies' = << reply >>
  /\ drvResult' = IF op \in FurnaceReads THEN ParseReply(reply)
                  ELSE [kind |-> "return", error |-> "", val |-> reply]
  /\ UNCHANGED << system, threads >>

HexChars == << "0", "1", "2", "3", "4", "5", "6", "7", "8", "9",
               "A", "B", "C", "D", "E", "F" >>

RECURSIVE HexOf(_)
\* the hexadecimal digits of n >= 0, without padding
HexOf(n) ==
  IF n < 16 THEN << HexChars[n + 1] >> ELSE Append(HexOf(n \div 16), HexChars[(n % 16) + 1])

\* f'{v:04X}': zero-padded to a width of 4, the sign counted in the width,
\* longer when the digits need more
Format04X(v) ==
  LET digits == HexOf(IF v < 0 THEN -v ELSE v)
      sign == IF v < 0 THEN << "-" >> ELSE << >>
      pad == 4 - Len(sign) - Len(digits)
  IN  sign \o SubSeq(<< "0", "0", "0" >>, 1, pad) \o digits

\* the frame of set_sp_setpoint(num, v) or set_tm_length(num, v): the D
\* register 27 + 2 num or 28 + 2 num and the value field; no frame when an
\* assertion fails
WriteFrame(fn, num, v) ==
  IF ~(num >= 1 /\ num <= 16) THEN << >>
  ELSE IF fn = "set_sp_setpoint" /\ ~(v >= 0 /\ v <= MaxSetpointTemp) THEN << >>
  ELSE << [register |-> (IF fn = "set_sp_setpoint" THEN 27 ELSE 28) + num * 2,
           field |-> Format04X(v)] >>

\* one call of a segment write, the controller answering
SegmentWriteCall(fn, num, v) ==
  /\ drvResult.kind = "none"
  /\ drvCall' = [op |-> "segment_write", fn |-> fn, num |-> num, value |-> v]
  /\ drvSent' = WriteFrame(fn, num, v)
  /\ drvReplies' = << >>
  /\ drvResult' = IF WriteFrame(fn, num, v) = << >> THEN Raised("AssertionError")
                  ELSE Returned(NoReply)
  /\ UNCHANGED << system, threads >>

\* flows of 0.0 .. MaxTenths/10 units and three larger ones; correction factors
\* 0.20, 0.50, 1.00 and 1.45
MaxTenths == 30
BenchFlows == 0 .. MaxTenths \cup {123, 1234, 5500}
BenchCorrections == {20, 50, 100, 145}

\* the drivers exercised one call at a time, with every reply an instrument can give
NextDriver ==
  \/ DriverReturn
  \/ IterateQueryCall
  \/ \E val \in Replies : IterateQueryAttempt(val)
  \/ IterateQueryTimeout
  \/ \E tenths \in BenchFlows, code \in RangeCodes, gc \in BenchCorrections :
       RoundTrip(tenths, code, gc)
  \/ \E op \in MfcOps, channel \in {-1, 0, 1, 9}, gas_set \in {0, 1, 6},
        set_point \in {-1, 1, 2} : MfcCall(op, channel, gas_set, set_point)
  \/ \E op \in FurnaceReads \cup FurnaceWrites, reply \in FurnaceReplies :
       FurnaceCall(op, reply)
  \/ \E x \in {0, 1, 500, 1000, MaxScaled}, code \in RangeCodes, gc \in BenchCorrections :
       DecodeFlow(x, code, gc)
  \/ \E fn \in {"set_sp_setpoint", "set_tm_length"}, num \in {0, 1, 16, 17},
        v \in {-1, 0, 10, 1200, 1201, 65535, 65536} : SegmentWriteCall(fn, num, v)

SpecDriver == Init /\ [][NextDriver]_vars

(* ----------------------------- the two threads ------------------------- *)
\* polling cycles begun in one run
MaxCycles == 3

\* "while self._running:" at the top of the loop; waited tells whether
\* msleep(REFRESH_TIME) ran since the previous cycle ended
NextCycle(p, waited) ==
  IF ~p.running THEN [p EXCEPT !.pc = "stopped", !.link = "none"]
  ELSE [p EXCEPT !.pc = "read", !.i = 1, !.todo = PollReads[1].links,
                 !.link = "none", !.cycle = @ + 1, !.waited = waited]

\* a read returned: its local is assigned; after the sixth, the emit is next
ReadDone(p) ==
  LET q == [p EXCEPT !.vals[p.i] = p.cycle, !.link = "none"]
  IN  IF p.i = Len(PollReads) THEN [q EXCEPT !.pc = "emit"]
      ELSE [q EXCEPT !.i = @ + 1, !.todo = PollReads[p.i + 1].links]

\* mutant: the exception swallowed and the cycle carried on with the next read
ExceptContinue_pass(p) ==
  LET q == [p EXCEPT !.failed = @ \cup {p.cycle}, !.link = "none"]
  IN  IF p.i = Len(PollReads) THEN [q EXCEPT !.pc = "emit"]
      ELSE [q EXCEPT !.i = @ + 1, !.todo = PollReads[p.i + 1].links]

\* "except Exception as e: print(...); continue"
ExceptContinue(p) ==
  NextCycle([p EXCEPT !.failed = @ \cup {p.cycle}], FALSE)

\* the worker transmits the query of the exchange it is at; on a handle that
\* was closed the driver raises at once
PollSend ==
  /\ poll.pc = "read" /\ poll.link = "none"
  /\ Head(poll.todo) \in gui.released => (poll.cycle < MaxCycles \/ ~poll.running)
  /\ poll' = IF Head(poll.todo) \in gui.released THEN ExceptContinue(poll)
             ELSE [poll EXCEPT !.link = Head(poll.todo)]
  /\ UNCHANGED << system, bench, gui, emitted >>

\* the exchange ends: the reply is parsed, or the driver raises
PollReceive(ok) ==
  /\ poll.pc = "read" /\ poll.link # "none"
  /\ ok \/ poll.cycle < MaxCycles \/ ~poll.running
  /\ ok => poll.link \notin gui.released
  /\ poll' = IF ~ok THEN ExceptContinue(poll)
             ELSE IF Len(poll.todo) > 1
               THEN [poll EXCEPT !.todo = Tail(@), !.link = "none"]
             ELSE ReadDone(poll)
  /\ UNCHANGED << system, bench, gui, emitted >>

\* self.dataReady.emit(segment, time_left, temp, flow, range_code, setpoint)
PollEmit ==
  /\ poll.pc = "emit"
  /\ emitted' = Append(emitted, [cycle |-> poll.cycle, vals |-> poll.vals])
  /\ poll' = [poll EXCEPT !.pc = "sleep"]
  /\ UNCHANGED << system, bench, gui >>

\* self.msleep(REFRESH_TIME) returns
PollWake ==
  /\ poll.pc = "sleep"
  /\ poll.cycle < MaxCycles
  /\ poll' = NextCycle(poll, TRUE)
  /\ UNCHANGED << system, bench, gui, emitted >>

MfcCommands == {"RA R", "GC R", "RA", "FS", "GM", "GP", "ON", "OF"}
LinkOf(frame) == IF frame[1] \in MfcCommands THEN "mfc" ELSE "furnace"
\* the exchanges behind the frames a handler transmits: link and command
Links(sent) == [k \in 1 .. Len(sent) |-> [link |-> LinkOf(sent[k]), cmd |-> sent[k][1]]]

\* closeEvent from worker.stop() on: furnace.close() is set_reset() and
\* inst.close(), mfc.close() is close_valve(0) and inst.close()
CloseSteps ==
  << [link |-> "none", cmd |-> "stop"],
     [link |-> "furnace", cmd |-> "RESET"],
     [link |-> "none", cmd |-> "release furnace"],
     [link |-> "mfc", cmd |-> "OF"],
     [link |-> "none", cmd |-> "release mfc"],
     [link |-> "none", cmd |-> "accept"] >>

\* the steps of a handler running in the GUI thread; closeEvent opens with
\* furnace.get_current_temp() inside its try block
GuiOps == {"start_furnace", "stop_furnace", "closeEvent"}
Exchanges(op) ==
  CASE op = "start_furnace" -> Links(start_furnace(Ctx({}, 0)).sent)
    [] op = "stop_furnace" -> Links(stop_furnace(Ctx({}, 0), "stop").sent)
    [] op = "closeEvent" -> << [link |-> "furnace", cmd |-> "get_current_temp"] >>

\* a button click or the close request is dispatched
GuiBegin(op) ==
  /\ gui.op = "idle"
  /\ gui' = [gui EXCEPT !.op = op, !.todo = Exchanges(op), !.try = (op = "closeEvent")]
  /\ UNCHANGED << system, bench, poll, emitted >>

\* an exception in closeEvent: inside the try block it is printed and the
\* handler goes on with the statements after the block; outside, it leaves the
\* handler and the application ends without running the remaining statements
GuiRaise(g) ==
  IF g.try THEN [g EXCEPT !.link = "none", !.todo = CloseSteps, !.try = FALSE]
  ELSE [g EXCEPT !.link = "none", !.todo = << >>, !.op = "closed",
                 !.released = {"furnace", "mfc"}]

\* write_raw of the next exchange: the frame goes out, or the transport raises
GuiSend(ok) ==
  /\ gui.link = "none" /\ gui.todo # << >> /\ Head(gui.todo).link # "none"
  /\ ok => Head(gui.todo).link \notin gui.released
  /\ ~ok => gui.op = "closeEvent"
  /\ gui' = IF ~ok THEN GuiRaise(gui)
            ELSE [gui EXCEPT !.link = Head(gui.todo).link, !.todo = Tail(gui.todo),
                             !.log = IF gui.op = "closeEvent"
                                       THEN Append(@, Head(gui.todo).cmd) ELSE @]
  /\ UNCHANGED << system, bench, poll, emitted >>

\* the exchange ends: a furnace write returns whatever the buffer holds, the
\* temperature read and iterate_query may raise
GuiReceive(ok) ==
  /\ gui.link # "none"
  /\ ~ok => gui.op = "closeEvent" /\ gui.log[Len(gui.log)] # "RESET"
  /\ gui' = IF ok THEN [gui EXCEPT !.link = "none"] ELSE GuiRaise(gui)
  /\ UNCHANGED << system, bench, poll, emitted >>

\* the temperature was read: "if temp > 30" and the answer to the question
GuiChoice(answer) ==
  /\ gui.op = "closeEvent" /\ gui.try /\ gui.todo = << >> /\ gui.link = "none"
  /\ gui.log = << "get_current_temp" >>
  /\ gui' = CASE answer = "cold" -> [gui EXCEPT !.todo = CloseSteps, !.try = FALSE]
              [] answer = "yes" -> [gui EXCEPT !.todo = CloseSteps]
              [] answer = "no" -> [gui EXCEPT !.op = "idle", !.try = FALSE, !.log = << >>]
  /\ UNCHANGED << system, bench, poll, emitted >>

\* a statement of closeEvent that is no exchange
GuiStep ==
  /\ gui.link = "none" /\ gui.todo # << >> /\ Head(gui.todo).link = "none"
  /\ LET cmd == Head(gui.todo).cmd
         g == [gui EXCEPT !.todo = Tail(gui.todo)]
     IN  /\ gui' = CASE cmd = "stop" -> g
                     [] cmd = "release furnace" ->
                          [g EXCEPT !.released = @ \cup {"furnace"}, !.log = Append(@, cmd)]
                     [] cmd = "release mfc" ->
                          [g EXCEPT !.released = @ \cup {"mfc"}, !.log = Append(@, cmd)]
                     [] cmd = "accept" -> [g EXCEPT !.op = "closed"]
         /\ poll' = IF cmd = "stop" THEN [poll EXCEPT !.running = FALSE] ELSE poll
  /\ UNCHANGED << system, bench, emitted >>

\* start_furnace or stop_furnace returns
GuiEnd ==
  /\ gui.op \in {"start_furnace", "stop_furnace"} /\ gui.todo = << >> /\ gui.link = "none"
  /\ gui' = [gui EXCEPT !.op = "idle"]
  /\ UNCHANGED << system, bench, poll, emitted >>

NextPoll ==
  \/ PollSend
  \/ \E ok \in BOOLEAN : PollReceive(ok)
  \/ PollEmit
  \/ PollWake
  \/ \E op \in GuiOps : GuiBegin(op)
  \/ \E ok \in BOOLEAN : GuiSend(ok)
  \/ \E ok \in BOOLEAN : GuiReceive(ok)
  \/ \E answer \in {"cold", "yes", "no"} : GuiChoice(answer)
  \/ GuiStep
  \/ GuiEnd

SpecPoll == Init /\ [][NextPoll]_vars

TypeOK ==
  /\ current_stage_index \in -1 .. (MaxStages - 1)
  /\ devSeg \in 0 .. NumSegments
  /\ Len(stages) <= MaxStages

(* ----------------------------- what a step transmitted ----------------- *)
Sent == {tx[k] : k \in 1 .. Len(tx)}
SentBy(src) == {c \in Sent : c.src = src}
\* the last step was start_furnace (it always transmits the start setpoint first)
Started == SentBy("start") # {}

\* the step is one run of handle_furnace_data (only it consumes a signal), and
\* Snap is the snapshot it processes
HandleStep == queue # << >> /\ queue' = Tail(queue)
Snap == Head(queue)

(* ----------------------------- continued polling ----------------------- *)
\* no instrument fails; the operator and the furnace program are under no
\* obligation
NextLive ==
  \/ AddStage(MaxRecipe, UserStages)
  \/ RemoveStage
  \/ StartFurnace({}, 0) /\ UNCHANGED staleTop
  \/ StopFurnace({})
  \/ HandleFurnaceData({}, TRUE)
  \/ \E temp \in Temps : WorkerPoll(TRUE, temp)
  \/ FurnaceAdvance(SegLimit)
  \/ FurnaceFinish

\* the step is one pass of the worker's loop that emits a snapshot (only it
\* lengthens the queue)
EmitStep ==
  /\ Len(queue) < MaxQueue
  /\ \E temp \in Temps : queue' = Append(queue, [segment |-> devSeg, temp |-> temp])

\* the worker's loop never ends while _running, so it keeps emitting snapshots,
\* and the GUI thread's event loop keeps delivering the queued signals
ContinuedPolling == WF_queue(EmitStep) /\ WF_queue(HandleStep)

SpecLive == Init /\ [][NextLive]_vars /\ ContinuedPolling

\* stop_furnace's MFC settings: set_range(1, 500, "SCCM") and
\* set_flow_setpoint(1, POST_ANNEAL_FLOW_RATE) as the instrument receives them
SafeCode == RangeCode(Rng(SafeRangeValue, "SCCM"))
Purge == ScaledSetpoint(POST_ANNEAL_FLOW_RATE, SafeCode, mfcGC)

\* the last step ran stop_furnace for src to its end: the furnace reset, then the
\* safe range and the purge flow accepted by the MFC
Stopped(src) ==
  /\ Cmd(src, "RESET", 0, 0, TRUE) \in Sent
  /\ Cmd(src, "RA", 1, SafeCode, TRUE) \in Sent
  /\ Cmd(src, "FS", 1, Purge, TRUE) \in Sent

\* the last step ended a run: reset() was transmitted by the completion checks or
\* by the stop button pressed during a run
RunEnded == \E c \in Sent : c.cmd = "RESET" /\ c.src \in {"stop", "complete"}

\* the last step performed the safe shut-off: flow setpoint 0 accepted, valve closed
ShutOffDone ==
  /\ Cmd("shutoff", "FS", 1, 0, TRUE) \in Sent
  /\ Cmd("shutoff", "OF", 1, 0, TRUE) \in Sent

\* stage k's (0-based) range code and scaled flow setpoint, as a push sends them
StageCode(k) == RangeCode(stages[k + 1].range)
StageFlow(k) == ScaledSetpoint(stages[k + 1].flow_rate, StageCode(k), mfcGC)

\* the step pushes stage k: both commands transmitted and accepted
Pushes(k) ==
  /\ Cmd("push", "RA", 1, StageCode(k), TRUE) \in Sent'
  /\ Cmd("push", "FS", 1, StageFlow(k), TRUE) \in Sent'

\* the MFC holds stage k's range and setpoint
Holds(k) == mfcRange = StageCode(k) /\ mfcFS = StageFlow(k)

(* ======================================================================= *)
(* Claims                                                                  *)
(* ======================================================================= *)

\* C1: start_furnace writes stage i (0-based) of an n-stage recipe, 0 <= n <= 8,
\* to ramp segment 2i+1 and hold segment 2i+2: both get the stage temperature,
\* 2i+1 the ramp minutes, 2i+2 the hold minutes (transmitted, and held by the
\* furnace afterwards), and every segment number written lies in 1..16.
C1_StagesToSegments ==
  Started =>
    /\ \A c \in Sent : c.cmd \in {"SP", "TM"} => (c.arg >= 1 /\ c.arg <= 16)
    /\ \E c \in Sent : c.cmd = "RUN"
    /\ \A i \in 0 .. (Len(stages) - 1) :
         LET w == stages[i + 1]
         IN  /\ Cmd("start", "SP", 2 * i + 1, w.temperature, TRUE) \in Sent
             /\ Cmd("start", "SP", 2 * i + 2, w.temperature, TRUE) \in Sent
             /\ Cmd("start", "TM", 2 * i + 1, w.ramp_time, TRUE) \in Sent
             /\ Cmd("start", "TM", 2 * i + 2, w.hold_time, TRUE) \in Sent
             /\ segSP[2 * i + 1] = w.temperature
             /\ segSP[2 * i + 2] = w.temperature
             /\ segTM[2 * i + 1] = w.ramp_time
             /\ segTM[2 * i + 2] = w.hold_time

\* C1 witness: a full recipe of 8 stages has been written, up to segment 16
C1_Witness ==
  /\ Started
  /\ Len(stages) = MaxStages
  /\ segSP[16] = stages[8].temperature
  /\ segTM[15] = stages[8].ramp_time
  /\ segTM[16] = stages[8].hold_time

\* C2: once a start with n stages has put the controller in Running, every segment
\* s with 2n < s <= 16 holds setpoint 0 and duration 0, whatever it held before.
C2_UnusedSegmentsCleared ==
  heating_in_progress =>
    \A seg \in Segments :
      seg > 2 * Len(stages) => (segSP[seg] = 0 /\ segTM[seg] = 0)

\* C2 witness: running a recipe shorter than the program the furnace held when
\* this start began
C2_Witness ==
  /\ heating_in_progress
  /\ Len(stages) >= 1
  /\ staleTop > 2 * Len(stages) + 1

\* C3: while Running with n stages, a processed snapshot whose segment exceeds 2n
\* triggers the transition to PostAnneal (the run ends, with furnace reset, safe
\* range and purge flow), no snapshot with segment in 1..2n triggers it, and no
\* snapshot triggers it again once the run has ended.
C3_OverrunTriggersOnce ==
  [][HandleStep =>
       /\ (heating_in_progress /\ Snap.segment > 2 * Len(stages))
            => (~heating_in_progress' /\ Stopped("complete")')
       /\ (heating_in_progress /\ Snap.segment >= 1 /\ Snap.segment <= 2 * Len(stages))
            => (heating_in_progress' /\ SentBy("complete")' = {})
       /\ ~heating_in_progress => SentBy("complete")' = {}]_vars

\* C4: while Running, a snapshot with segment 0 processed when a stage is recorded
\* as active (current_stage_index # -1) triggers the transition to PostAnneal, and
\* snapshots with segment 0 processed after the run has ended trigger none.
C4_WraparoundTriggersOnce ==
  [][(HandleStep /\ Snap.segment = 0) =>
       /\ (heating_in_progress /\ current_stage_index # -1)
            => (~heating_in_progress' /\ Stopped("complete")')
       /\ ~heating_in_progress => SentBy("complete")' = {}]_vars

\* C5: in PostAnneal the first processed snapshot with temperature below 30
\* performs the safe shut-off (setpoint 0, valve closed) and leaves PostAnneal, so
\* that no later snapshot repeats it; a snapshot with temperature >= 30 sends no
\* shut-off command, nor does a snapshot processed outside PostAnneal.
C5_ShutOffOnceOnFirstCold ==
  [][HandleStep =>
       /\ (post_anneal_flow /\ Snap.temp < SafeTemperature)
            => (ShutOffDone' /\ ~post_anneal_flow')
       /\ Snap.temp >= SafeTemperature => SentBy("shutoff")' = {}
       /\ (~post_anneal_flow /\ SentBy("complete")' = {}) => SentBy("shutoff")' = {}]_vars

\* C6: no snapshot processed while the controller is in PostAnneal, one polled
\* before the stop and delivered after it included, pushes a recipe stage's range
\* or setpoint to the MFC.
C6_NoPushDuringPostAnneal ==
  [][(HandleStep /\ post_anneal_flow) => SentBy("push")' = {}]_vars

\* C7: in every reachable state heating_in_progress and post_anneal_flow are not
\* both true.
C7_NeverRunningAndPostAnneal ==
  ~(heating_in_progress /\ post_anneal_flow)

\* C8: whenever a run ends (by completion, overrun or the stop button), also when
\* an MFC command of the stop sequence fails, the safe shut-off is performed in
\* that step or left pending (post_anneal_flow set) for the first snapshot below
\* 30: otherwise no later snapshot ever zeroes the flow and closes the valve.
C8_RunEndLeavesShutOffPending ==
  [][(heating_in_progress /\ ~heating_in_progress')
       => (post_anneal_flow' \/ ShutOffDone')]_vars

\* C9: a snapshot processed during a run pushes to the MFC if and only if its
\* stage index (segment-1)//2 differs from current_stage_index and lies in
\* 0..n-1; the push carries that stage's range and setpoint and records the
\* stage, so that the next snapshot of the same stage pushes nothing.
C9_PushIffStageChanged ==
  [][(HandleStep /\ heating_in_progress) =>
       /\ (SentBy("push")' # {}) <=> StageChanged(current_stage_index, Snap.segment)
       /\ StageChanged(current_stage_index, Snap.segment)
            => /\ Pushes(StageIndexOf(Snap.segment))
               /\ current_stage_index' = StageIndexOf(Snap.segment)]_vars

\* C10: while Running, a recorded current_stage_index = k (which every processed
\* snapshot with segment in 1..2n sets to (segment-1)//2) implies that the MFC
\* holds stage k's range and setpoint, also when a command of the push failed.
C10_RecordedStageHeldByMfc ==
  (heating_in_progress /\ current_stage_index >= 0 /\ current_stage_index < Len(stages))
    => Holds(current_stage_index)

\* C11: a press of the stop button while Running ends the run in that very step,
\* whatever the temperature and without consuming a snapshot, and performs the
\* actions of natural completion: furnace reset, current_stage_index = -1, the
\* safe range and the purge flow set on the MFC.
C11_StopWhileRunning ==
  [][(SentBy("stop")' # {}) =>
       /\ ~heating_in_progress'
       /\ current_stage_index' = -1
       /\ Stopped("stop")'
       /\ queue' = queue]_vars

\* C12: a press of the stop button right after another (no step between them) leaves
\* heating_in_progress, current_stage_index and post_anneal_flow as the first
\* stop left them: not running, stage index -1.
C12_StopTwiceAsOnce ==
  [][((SentBy("stop") \cup SentBy("idle") # {}) /\ SentBy("idle")' # {}) =>
       /\ heating_in_progress' = heating_in_progress
       /\ current_stage_index' = current_stage_index
       /\ post_anneal_flow' = post_anneal_flow
       /\ ~heating_in_progress'
       /\ current_stage_index' = -1]_vars

\* C13: one call of iterate_query transmits the command at most 5 times; the
\* first reply that does not begin with "E" ends the call, which returns that
\* reply and transmits nothing after it; the command is transmitted again only
\* after a reply that begins with "E".
C13_QueryRetries ==
  /\ [](drvCall.op = "iterate_query" =>
          /\ Len(drvSent) <= 5
          /\ \A k \in 1 .. Len(drvReplies) :
                drvReplies[k].c0 # "E" =>
                  /\ k = Len(drvReplies)
                  /\ drvResult = [kind |-> "return", val |-> drvReplies[k], error |-> ""]
          /\ drvResult.kind = "return" =>
                (drvReplies # << >> /\ drvReplies[Len(drvReplies)].c0 # "E"))
  /\ [][(drvCall.op = "iterate_query" /\ Len(drvSent') > Len(drvSent)) =>
          /\ Len(drvSent') = Len(drvSent) + 1
          /\ drvResult.kind = "running"
          /\ drvReplies = << >> \/ drvReplies[Len(drvReplies)].c0 = "E"]_vars

\* C13 witness: two error replies, then a value returned on the third attempt
C13_Witness ==
  /\ drvCall.op = "iterate_query"
  /\ Len(drvSent) = 3
  /\ drvReplies[1].c0 = "E" /\ drvReplies[2].c0 = "E"
  /\ drvResult.kind = "return"

\* C14: when all 5 attempts of a query got an error reply, the call raises, with
\* the message selected by the second character of the last reply ("0" channel,
\* "1" unknown command, "2" syntax, "3" invalid expression, "4" invalid value,
\* "5" autozero, anything else unknown error), and returns no value.
C14_ErrorClassification ==
  (/\ drvCall.op = "iterate_query"
   /\ Len(drvReplies) = 5
   /\ \A k \in 1 .. 5 : drvReplies[k].c0 = "E")
  => /\ drvResult.kind = "raise"
     /\ drvResult.val = NoReply
     /\ LET c == drvReplies[5].c1
        IN  /\ c = "0" => drvResult.error = "channel error"
            /\ c = "1" => drvResult.error = "unknown command"
            /\ c = "2" => drvResult.error = "syntax error"
            /\ c = "3" => drvResult.error = "invalid expression"
            /\ c = "4" => drvResult.error = "invalid value"
            /\ c = "5" => drvResult.error = "autozero error"
            /\ c \notin {"0", "1", "2", "3", "4", "5"} => drvResult.error = "unknown error"

\* C14 witness: five error replies with second character "4" (Scenario B)
C14_Witness ==
  /\ drvCall.op = "iterate_query"
  /\ Len(drvReplies) = 5
  /\ \A k \in 1 .. 5 : drvReplies[k] = [c0 |-> "E", c1 |-> "4"]
  /\ drvResult.error = "invalid value"

\* C15: for a flow value within the permitted span (device integer 0..1100), any
\* range of the table and any correction factor, encoding the value, decoding
\* the device integer with the read transform and encoding the result again
\* gives a device integer that differs from the first by at most 1.
C15_RoundTripWithinOne ==
  drvCall.op = "round_trip" =>
    /\ drvResult.val.again - drvResult.val.x <= 1
    /\ drvResult.val.x - drvResult.val.again <= 1

\* C16: an MKS647B operation called with a channel outside 1..8 (0..8 for the
\* valve operations), a gas menu outside 0..5, a gas set outside 1..5 or a
\* setpoint whose scaled value lies outside 0..1100 fails and has transmitted
\* nothing, neither a command nor a query.
C16_RejectedBeforeTransmission ==
  LET op == drvCall.op
      x  == ScaledSetpoint(drvCall.set_point, mfcRange, mfcGC)
      bad == \/ op \in {"open_valve", "close_valve"}
                /\ ~(drvCall.channel >= 0 /\ drvCall.channel <= 8)
             \/ op \in {"set_gas_setpoint", "set_flow_setpoint", "set_range",
                         "get_range", "get_gas_correction_factor"}
                /\ ~(drvCall.channel >= 1 /\ drvCall.channel <= 8)
             \/ op = "set_gas_menu" /\ ~(drvCall.gas_set >= 0 /\ drvCall.gas_set <= 5)
             \/ op = "set_gas_setpoint" /\ ~(drvCall.gas_set >= 1 /\ drvCall.gas_set <= 5)
             \/ op \in {"set_gas_setpoint", "set_flow_setpoint"} /\ ~(x >= 0 /\ x <= 1100)
  IN  (op \in MfcOps /\ bad) => (drvResult.kind = "raise" /\ drvSent = << >>)

\* C17: a UP150 operation, read or write, whose reply is absent or too short
\* to hold the value field at bytes 7..11 fails, and it has transmitted its
\* command once.
C17_ShortReplyFails ==
  (drvCall.op \in FurnaceReads \cup FurnaceWrites /\ drvReplies[1].len < 11)
    => (drvResult.kind = "raise" /\ Len(drvSent) = 1)

\* C18: a failed read does not end the polling task (it ends only after
\* worker.stop()), and every snapshot emitted carries six values read in one
\* and the same cycle, a cycle in which no read failed.
C18_SnapshotsAreWholeCycles ==
  /\ \A k \in 1 .. Len(emitted) :
        /\ \A i \in 1 .. Len(PollReads) : emitted[k].vals[i] = emitted[k].cycle
        /\ emitted[k].cycle \notin poll.failed
  /\ poll.pc = "stopped" => ~poll.running

\* a cycle failed, the task is alive and a later cycle was emitted
C18_Witness ==
  /\ poll.running /\ poll.pc # "stopped"
  /\ \E k \in 1 .. Len(emitted) : \E c \in poll.failed : emitted[k].cycle > c

\* C19: the first read of a cycle that follows another cycle is issued only
\* after the refresh interval was waited.
C19_WaitsBeforeNextCycle ==
  (poll.link # "none" /\ poll.i = 1 /\ poll.cycle > 1) => poll.waited

\* C20: the GUI thread and the polling task never have an exchange in flight
\* on the same instrument link at the same time.
C20_OneExchangePerLink ==
  ~(poll.link # "none" /\ gui.link = poll.link)

\* C21: when the close-down has ended, on whatever path, the furnace reset
\* and the MFC valve-close command have both been transmitted, each before the
\* handle of its link was released.
C21_ShutdownCommandsSent ==
  LET At(e) == {k \in 1 .. Len(gui.log) : gui.log[k] = e}
  IN  gui.op = "closed" =>
        /\ At("RESET") # {} /\ At("OF") # {}
        /\ \A r \in At("release furnace") : \E k \in At("RESET") : k < r
        /\ \A r \in At("release mfc") : \E k \in At("OF") : k < r

C23_AtMostEightStages ==
  /\ [](Len(stages) <= 8)
  /\ [][(Len(stages) = 8 /\ stages' # stages) =>
          (stages' = SubSeq(stages, 1, 7) \/ loaded' # loaded)]_vars
  /\ [][(stages = << >> /\ stages' # stages) =>
          (Len(stages') = 1 \/ loaded' # loaded)]_vars

\* the recipe is full after the load of a file of more than 8 records
C23_Witness == Len(stages) = 8 /\ Len(loaded.file.records) > 8 /\ loaded.outcome = "ok"

\* C24: a load of a file with a record lacking a field fails and leaves the
\* recipe as it was before the load.
C24_FailedLoadLeavesRecipe ==
  [][(loaded' # loaded /\ loaded'.file.bad # 0) =>
       (loaded'.outcome = "raise" /\ stages' = stages)]_vars

\* C25: after a load that reports success the recipe is the sequence of the
\* file's records, stage j carrying the values of record j.
C25_LoadedRecipeIsFile ==
  [][(loaded' # loaded /\ loaded'.outcome = "ok") => stages' = loaded'.file.records]_vars

\* C26: in a start, run() is transmitted only after a setpoint and a duration
\* were written to each of the 16 segments, the valve is opened only after
\* run(), and the controller is Running afterwards only if both went through;
\* a start in which a segment write failed transmits no run() and leaves the
\* controller not running.
C26_RunAfterAllSegments ==
  LET At(cmd) == {k \in 1 .. Len(tx) : tx[k].cmd = cmd}
      Wrote(cmd, seg, k) == \E j \in At(cmd) : j < k /\ tx[j].arg = seg /\ tx[j].ok
      Complete == \A seg \in 1 .. 16 :
                    Wrote("SP", seg, Len(tx) + 1) /\ Wrote("TM", seg, Len(tx) + 1)
  IN  Started =>
        /\ \A k \in At("RUN") :
             \A seg \in 1 .. 16 : Wrote("SP", seg, k) /\ Wrote("TM", seg, k)
        /\ \A k \in At("ON") : \E j \in At("RUN") : j < k
        /\ heating_in_progress =>
             (\E j \in At("RUN") : tx[j].ok) /\ (\E k \in At("ON") : tx[k].ok)
        /\ ~Complete => (At("RUN") = {} /\ ~heating_in_progress)

\* a start of a two-stage recipe whose write to a later segment failed
C26_Witness ==
  /\ Started /\ Len(stages) = 2
  /\ \E c \in Sent : c.cmd = "TM" /\ c.arg = 6
  /\ ~\E c \in Sent : c.cmd = "TM" /\ c.arg = 16
  /\ ~\E c \in Sent : c.cmd = "RUN"
  /\ ~heating_in_progress

\* C27: for the same device integer, range and correction factor,
\* get_actual_flow and get_flow_setpoint return the same engineering value.
C27_SameDecoding ==
  drvCall.op = "decode_flow" => drvResult.val.actual = drvResult.val.setpoint

\* C28: a segment write that is transmitted addresses a segment in 1..16 and
\* carries a temperature in 0..1200 or a duration >= 0 as exactly 4
\* hexadecimal digits; a call with a segment outside 1..16, a temperature
\* outside 0..1200 or a negative duration fails and transmits nothing.
C28_WriteFramesWellFormed ==
  LET valid == /\ drvCall.num >= 1 /\ drvCall.num <= 16
               /\ drvCall.value >= 0
               /\ drvCall.fn = "set_sp_setpoint" => drvCall.value <= 1200
      HexDigit == {"0", "1", "2", "3", "4", "5", "6", "7", "8", "9",
                   "A", "B", "C", "D", "E", "F"}
  IN  drvCall.op = "segment_write" =>
        /\ ~valid => (drvResult.kind = "raise" /\ drvSent = << >>)
        /\ \A k \in 1 .. Len(drvSent) :
             /\ valid
             /\ Len(drvSent[k].field) = 4
             /\ \A i \in 1 .. Len(drvSent[k].field) : drvSent[k].field[i] \in HexDigit

\* C29: the run state is fresh at every start: when start_furnace has set
\* heating_in_progress, current_stage_index is -1, and a snapshot with segment 0
\* handled right after that start does not trigger the completion transition.
C29_FreshRunState ==
  /\ []((Started /\ heating_in_progress) => current_stage_index = -1)
  /\ [][(Started /\ heating_in_progress /\ HandleStep /\ Snap.segment = 0)
          => SentBy("complete")' = {}]_vars

\* C30: when start_furnace has transmitted the run command and returned, the
\* controller is Running (no reset is transmitted by start_furnace).
C30_RunningAfterRun ==
  (Started /\ \E c \in Sent : c.cmd = "RUN") => heating_in_progress

\* C31: completion is always detected: when the controller is Running and the
\* furnace program has finished (the segment number reads 0 from then on), then
\* under continued polling the controller eventually leaves Running, also when
\* no snapshot with a nonzero segment was ever processed.
C31_CompletionDetected ==
  [](heating_in_progress /\ devSeg = 0) ~> ~heating_in_progress

\* C32: while Running, every delivered snapshot reaches the stage-change, the
\* completion and the post-anneal handling: what its handler leaves behind is
\* what these checks produce for the snapshot, whether or not the extra read of
\* the hold duration for a ramp segment fails.
C32_ChecksReached ==
  [][(HandleStep /\ heating_in_progress) =>
       \E F \in FailSets(HandlerQueries) :
          LET r == handle_furnace_data(Ctx(F, 0), Snap.segment, Snap.temp, TRUE)
          IN  /\ current_stage_index' = r.csi
              /\ heating_in_progress' = r.heating
              /\ post_anneal_flow' = r.post
              /\ tx' = r.tx]_vars
====
